---- MODULE Spec2Model ----
(***************************************************************************)
(* Model of the js-sentinel change-detection cycle                         *)
(* (src/src/services/monitor_service.py) and of its Version Store          *)
(* (src/src/services/content_storage.py).                                  *)
(*                                                                         *)
(* One monitored source is modelled.  A text is a sequence of lines; a     *)
(* line is an atomic token standing for LineLen characters.  Confidences   *)
(* are integers in units of 1/10000 (0.99 is 9900).                        *)
(***************************************************************************)
EXTENDS Integers, Sequences, FiniteSets, TLC

VARIABLES
    files,        \* the source's directory of the Version Store: a set of [ts, hash, data]
    last_hash,    \* MonitoredUrl.last_hash (None before the first successful cycle)
    last_checked, \* MonitoredUrl.last_checked: the ordinal of its last stamp (0 = never)
    clock,        \* datetime.utcnow() as store_content reads it: the ordinal of the next store
    passed,       \* history: capture time |-> the content argument of the store_content
                  \* call that wrote the file, for the files still present
    saved_hash_info, \* current_hash_info of the last cycle that updated the record of the source
    threads,      \* the threads that run check cycles (fixed in a behaviour)
    cycles_allowed, \* the number of check cycles a behaviour may begin (fixed)
    pc,           \* per thread: its position inside monitor_single_url
    cyc,          \* per thread: the locals of its running (or last) cycle
    result,       \* per thread: what its last monitor_single_url call returned
    calls,        \* number of check cycles and of direct store_content calls so far
    prune,        \* what the last clean_old_versions call did
    fn            \* a call of a pure function on its own: its arguments and what it returned

vars == <<files, last_hash, last_checked, clock, passed, saved_hash_info, threads,
          cycles_allowed, pc, cyc, result, calls, prune, fn>>

---------------------------------------------------------------------------
(* Bounds of the model *)

MaxCycles == 3      \* check cycles begun in one behaviour
MaxRetryCycles == 4 \* check cycles begun in one behaviour of the retry specification
MaxStores == 6      \* direct store_content calls in one behaviour
MaxKeep == 4        \* largest versions_to_keep tried
MaxPrunes == 1      \* clean_old_versions calls in one behaviour
MaxFailing == 1     \* deletions that fail in one clean_old_versions call
MaxUrls == 2        \* rows of the table of monitored URLs
MaxExcess == 120    \* characters of a text behind the start of its last window
LineLen == 1200     \* characters of one line token

(* Program constants *)

AstSizeLimit == 10000     \* generate_enhanced_ast_hash: larger texts skip the parser
ChunkSize == 2000         \* generate_position_aware_hash: chunk_size
SmallFileLimit == 1000    \* enhanced_content_comparison: character-level pass below it
LegacyConfidence == 5000  \* old_hash_info['confidence'] = 0.5
VerifyThreshold == 8000   \* monitor_single_url: confidence < 0.80 asks for verification
EscalationThreshold == 7500           \* threshold of should_do_additional_verification
ImportantEscalationThreshold == 7000  \* the same with has_important_change

MinChunk == 100           \* generate_position_aware_hash: shorter trailing windows are skipped
DiffChunkLimit == 50000   \* chunk_large_content: max_chunk_size

None == "None"
Comment == "//"
Broken == "{"
\* two statements that differ only below the depth clean_ast_for_hashing keeps
Deep1 == "function f() { return x; }"
Deep2 == "function f() { return y; }"
\* a statement with a lone surrogate code point in a string literal
Surrogate == "var s = 'U+D800';"
\* two statements that differ in a 13-digit timestamp only, and what
\* normalize_javascript_content makes of both
Stamp1 == "var t = 1700000000001;"
Stamp2 == "var t = 1700000000002;"
Stamped == "var t = TIMESTAMP_MS;"
\* two comment lines that bring a two-line text to exactly chunk_size
\* characters and to one character more
Fill == "/* fill */"
FillPlus == "/* fill+ */"

\* The texts the fetch collaborator can deliver (after deobfuscation and
\* beautification): an empty body, three parseable scripts of which two differ
\* in a comment line only, and a script the parser rejects.
Texts == { <<>>, <<"a">>, <<"a", Comment>>, <<"b">>, <<Broken>> }

\* the texts passed to store_content when it is called on its own
StoreTexts == { <<"a">>, <<"b">> }

Thread1 == "t1"
Thread2 == "t2"

Range(seq) == { seq[i] : i \in 1..Len(seq) }
\* min() that returns its first argument
Min_first(a, b) == a

Min(a, b) == IF a <= b THEN a ELSE b
Max(a, b) == IF a >= b THEN a ELSE b
Abs(a) == IF a >= 0 THEN a ELSE 0 - a

---------------------------------------------------------------------------
(* Texts *)

\* the characters of one line
LineLength(line) ==
    IF line = Fill THEN ChunkSize - LineLen - 1
    ELSE IF line = FillPlus THEN ChunkSize - LineLen
    ELSE LineLen

\* len(content): the lines and the newlines between them
RECURSIVE TextLen(_)
TextLen(text) ==
    IF text = <<>> THEN 0
    ELSE IF Len(text) = 1 THEN LineLength(text[1])
    ELSE LineLength(Head(text)) + 1 + TextLen(Tail(text))

\* the position of the first character of line k
LineStart(text, k) == IF k = 1 THEN 0 ELSE TextLen(SubSeq(text, 1, k - 1)) + 1

\* the dynamic_patterns of normalize_javascript_content on one line
NormalizedLine(line) == IF line \in {Stamp1, Stamp2} THEN Stamped ELSE line

\* re.sub(r'\n\s*\n\s*\n+', '\n\n', ...): a run of blank lines becomes one
RECURSIVE CollapseBlankLines(_)
CollapseBlankLines(text) ==
    IF Len(text) < 2 THEN text
    ELSE IF text[1] = "" /\ text[2] = "" THEN CollapseBlankLines(Tail(text))
    ELSE <<Head(text)>> \o CollapseBlankLines(Tail(text))

\* str.strip() on the lines of a text
RECURSIVE Strip(_)
Strip(text) ==
    IF text = <<>> THEN text
    ELSE IF Head(text) = "" THEN Strip(Tail(text))
    ELSE IF text[Len(text)] = "" THEN Strip(SubSeq(text, 1, Len(text) - 1))
    ELSE text

normalize_javascript_content(text) ==
    Strip(CollapseBlankLines([i \in 1..Len(text) |-> NormalizedLine(text[i])]))

\* esprima.parseScript succeeds (tolerant mode still rejects some inputs)
Parses(text) == \A i \in 1..Len(text) : text[i] # Broken

IsCode(line) == line \notin {Comment, Fill, FillPlus, ""}

\* clean_ast_for_hashing of one statement: what lies deeper than max_depth
\* becomes "MAX_DEPTH_REACHED"
Shallow(line) ==
    IF line \in {Deep1, Deep2} THEN "function f() { MAX_DEPTH_REACHED }" ELSE line

\* the cleaned AST: comments are not attached, positions are removed
CleanAst(text) ==
    LET statements == SelectSeq(text, IsCode)
    IN  [i \in 1..Len(statements) |-> Shallow(statements[i])]

\* str.encode() succeeds: no lone surrogate in the text
Encodes(text) == \A i \in 1..Len(text) : text[i] # Surrogate

\* hashlib.md5(...).hexdigest(), taken to be injective: the digest is the
\* printed pre-image
md5(preimage) == ToString(preimage)

---------------------------------------------------------------------------
(* Fingerprint Engine *)

\* the characters [s, e) of a text, after normalize_javascript_content and
\* strip(): for every line the window touches, the line and the part of it
\* inside the window (a newline at either edge is stripped)
Window(text, s, e) ==
    LET piece(k) == <<NormalizedLine(text[k]), Max(s - LineStart(text, k), 0),
                      Min(e - LineStart(text, k), LineLength(text[k]))>>
        touched == SelectSeq([k \in 1..Len(text) |-> k],
                             LAMBDA k : piece(k)[2] < piece(k)[3])
    IN  [j \in 1..Len(touched) |-> piece(touched[j])]

\* the windows without the 50% overlap: range(0, len(js_content), chunk_size)
ChunkStarts_without_overlap(n) ==
    LET kept == { j \in 0..(n \div ChunkSize) :
                    j * ChunkSize < n /\ Min(ChunkSize, n - j * ChunkSize) >= MinChunk }
    IN  [c \in 1..Cardinality(kept) |-> (c - 1) * ChunkSize]

\* range(0, len(js_content), chunk_size // 2), keeping the windows of at
\* least MinChunk characters (the windows only shrink, so the first ones stay)
ChunkStarts(n) ==
    LET step == ChunkSize \div 2
        kept == { j \in 0..(n \div step) :
                    j * step < n /\ Min(ChunkSize, n - j * step) >= MinChunk }
    IN  [c \in 1..Cardinality(kept) |-> (c - 1) * step]

\* every chunk weighted alike
ChunkWeight_flat(chunk_number) == 1

ChunkWeight(chunk_number) ==
    IF chunk_number = 0 THEN 3 ELSE IF chunk_number = 1 THEN 2 ELSE 1

RECURSIVE Repeat(_, _)
Repeat(x, times) == IF times = 0 THEN <<>> ELSE <<x>> \o Repeat(x, times - 1)

RECURSIVE WeightedParts(_)
WeightedParts(chunks) ==
    IF chunks = <<>> THEN <<>>
    ELSE Repeat(Head(chunks).hash, Head(chunks).weight) \o WeightedParts(Tail(chunks))

\* the same with a threshold that a text of exactly chunk_size characters
\* does not pass
generate_position_aware_hash_below_threshold(text) ==
    IF TextLen(text) < ChunkSize
    THEN [hash |-> md5(<<"raw", text>>), method |-> "simple_content",
          confidence |-> 9000, chunk_details |-> <<>>]
    ELSE LET n == TextLen(text)
             starts == ChunkStarts(n)
             chunks == [c \in 1..Len(starts) |->
                          [start |-> starts[c],
                           end |-> Min(starts[c] + ChunkSize, n),
                           hash |-> md5(Window(text, starts[c], Min(starts[c] + ChunkSize, n))),
                           weight |-> ChunkWeight(c - 1)]]
         IN  [hash |-> md5(WeightedParts(chunks)), method |-> "position_aware_chunked",
              confidence |-> 9200, chunk_details |-> chunks]

generate_position_aware_hash(text) ==
    IF TextLen(text) <= ChunkSize
    THEN [hash |-> md5(<<"raw", text>>), method |-> "simple_content",
          confidence |-> 9000, chunk_details |-> <<>>]
    ELSE LET n == TextLen(text)
             starts == ChunkStarts(n)
             chunks == [c \in 1..Len(starts) |->
                          [start |-> starts[c],
                           end |-> Min(starts[c] + ChunkSize, n),
                           hash |-> md5(Window(text, starts[c], Min(starts[c] + ChunkSize, n))),
                           weight |-> ChunkWeight(c - 1)]]
         IN  [hash |-> md5(WeightedParts(chunks)), method |-> "position_aware_chunked",
              confidence |-> 9200, chunk_details |-> chunks]

\* generate_position_aware_hash raises: js_content.encode() (line 282) and
\* normalized_chunk.encode() (line 302) are outside any try
generate_position_aware_hash_raises(text) == ~Encodes(text)

\* generate_enhanced_ast_hash raises: the parser's and the serializer's
\* exceptions are caught (json.dumps escapes to ASCII, so the AST path
\* encodes), the calls of generate_position_aware_hash are not guarded
generate_enhanced_ast_hash_raises(text) ==
    IF TextLen(text) > AstSizeLimit THEN generate_position_aware_hash_raises(text)
    ELSE IF Parses(text) THEN FALSE
         ELSE generate_position_aware_hash_raises(text)

\* a fingerprint whose hash is salted with the number of calls made so far
generate_enhanced_ast_hash_salted(text) ==
    [hash |-> md5(<<"salted", fn.count, text>>), method |-> "ast",
     confidence |-> 9500, chunk_details |-> <<>>]

generate_enhanced_ast_hash(text) ==
    IF TextLen(text) > AstSizeLimit THEN generate_position_aware_hash(text)
    ELSE IF Parses(normalize_javascript_content(text))
         THEN [hash |-> md5(<<"ast", CleanAst(normalize_javascript_content(text))>>),
               method |-> "ast",
               confidence |-> 9500, chunk_details |-> <<>>]
         ELSE generate_position_aware_hash(text)

\* no fingerprint: nothing was returned, nothing was saved
NoFingerprint == [hash |-> None, method |-> "none", confidence |-> 0, chunk_details |-> <<>>]

\* monitor_single_url, lines 952-970: MonitoredUrl has no last_hash_info
\* column, so the previous fingerprint is rebuilt from last_hash alone
old_hash_info_of(stored_hash) ==
    [hash |-> stored_hash, method |-> "legacy", confidence |-> LegacyConfidence,
     chunk_details |-> <<>>]

---------------------------------------------------------------------------
(* Change Classifier *)

\* a sum that counts every chunk once, whatever its weight
SumWeights_count(chunks) == Len(chunks)

RECURSIVE SumWeights(_)
SumWeights(chunks) ==
    IF chunks = <<>> THEN 0 ELSE Head(chunks).weight + SumWeights(Tail(chunks))

NoChunkResult ==
    [some |-> FALSE, changed |-> FALSE, confidence |-> 0, changed_chunks |-> {},
     changed_weight |-> 0, total_weight |-> 0, has_important_change |-> FALSE]

\* chunk positions are 0-based in changed_chunks, as chunk_index is
compare_chunk_hashes(old_hash_info, new_hash_info) ==
    IF old_hash_info.method # "position_aware_chunked"
       \/ new_hash_info.method # "position_aware_chunked"
    THEN NoChunkResult
    ELSE LET old_chunks == old_hash_info.chunk_details
             new_chunks == new_hash_info.chunk_details
             max_chunks == Max(Len(old_chunks), Len(new_chunks))
             IsChanged(i) == \/ i > Len(old_chunks)
                             \/ i > Len(new_chunks)
                             \/ old_chunks[i].hash # new_chunks[i].hash
             WeightAt(i) == IF i <= Len(new_chunks) THEN new_chunks[i].weight
                            ELSE old_chunks[i].weight
             changed == { i \in 1..max_chunks : IsChanged(i) }
             changed_seq == SelectSeq([i \in 1..max_chunks |-> [weight |-> WeightAt(i), at |-> i]],
                                      LAMBDA c : c.at \in changed)
             total_weight == SumWeights(old_chunks \o new_chunks)
             changed_weight == SumWeights(changed_seq)
             has_important_change == \E i \in changed : i - 1 <= 1 /\ WeightAt(i) >= 2
             \* change_ratio * 0.10, in units of 1/10000
             ratio_part == IF total_weight > 0 THEN (changed_weight * 1000) \div total_weight
                           ELSE 1000
             confidence == IF has_important_change THEN Min(9800, 8500 + 1000)
                           ELSE Min(9500, 8500 + ratio_part)
         IN  IF changed = {}
             THEN [NoChunkResult EXCEPT !.some = TRUE, !.confidence = 9800]
             ELSE [some |-> TRUE, changed |-> TRUE, confidence |-> confidence,
                   changed_chunks |-> { i - 1 : i \in changed },
                   changed_weight |-> changed_weight, total_weight |-> total_weight,
                   has_important_change |-> has_important_change]

\* similarity and length_diff are fractions: <<numerator, denominator>>
NoSimilarity == [some |-> FALSE, similarity |-> <<0, 1>>, major_change |-> FALSE,
                 length_diff |-> <<0, 1>>]

\* fraction f > p/q, f < p/q
Above(f, p, q) == f[1] * q > p * f[2]
Below(f, p, q) == f[1] * q < p * f[2]

\* analysed: which analyses the classifier ran for the verdict
Verdict(changed, confidence, important) ==
    [changed |-> changed, confidence |-> confidence, has_important_change |-> important,
     analysed |-> {}]

Analysed(verdict, analyses) == [verdict EXCEPT !.analysed = analyses]

\* a classifier that does not compare the hashes: changed unless a supplied
\* similarity is above 0.98 with a length difference below 1%
calculate_change_confidence_without_equal_hashes(old_hash_info, new_hash_info, content_similarity) ==
    IF content_similarity.some
    THEN IF Above(content_similarity.similarity, 98, 100)
            /\ Below(content_similarity.length_diff, 1, 100)
         THEN Verdict(FALSE, 9500, FALSE)
         ELSE Verdict(TRUE, Min(old_hash_info.confidence, new_hash_info.confidence), FALSE)
    ELSE Verdict(TRUE, Min(old_hash_info.confidence, new_hash_info.confidence), FALSE)

\* a classifier that looks at a supplied similarity before it compares the
\* hashes
calculate_change_confidence_similarity_first(old_hash_info, new_hash_info, content_similarity) ==
    IF content_similarity.some /\ content_similarity.major_change
    THEN Analysed(Verdict(TRUE, 9900, FALSE), {"similarity"})
    ELSE IF old_hash_info.hash = new_hash_info.hash THEN Verdict(FALSE, 9900, FALSE)
    ELSE Verdict(TRUE, Min(old_hash_info.confidence, new_hash_info.confidence), FALSE)

calculate_change_confidence(old_hash_info, new_hash_info, content_similarity) ==
    IF old_hash_info.hash = new_hash_info.hash THEN Verdict(FALSE, 9900, FALSE)
    ELSE LET chunk_result == compare_chunk_hashes(old_hash_info, new_hash_info)
             base_confidence == Min(old_hash_info.confidence, new_hash_info.confidence)
             similarity == content_similarity.similarity
             length_diff == content_similarity.length_diff
             high_chunk_change == chunk_result.some /\ chunk_result.changed
                                  /\ chunk_result.confidence >= 8500
         IN  Analysed(
             IF chunk_result.some
             THEN IF chunk_result.changed /\ chunk_result.confidence >= 8500
                  THEN Verdict(TRUE, chunk_result.confidence, chunk_result.has_important_change)
                  ELSE IF content_similarity.some
                       THEN IF chunk_result.has_important_change /\ Below(similarity, 999, 1000)
                            THEN Verdict(TRUE, Min((chunk_result.confidence * 105) \div 100, 9800), FALSE)
                            ELSE IF ~chunk_result.has_important_change /\ Below(similarity, 995, 1000)
                                 THEN Verdict(TRUE, chunk_result.confidence, FALSE)
                                 ELSE Verdict(FALSE, 9000, FALSE)
                       ELSE Verdict(chunk_result.changed, chunk_result.confidence,
                                    chunk_result.has_important_change)
             ELSE IF content_similarity.some
                  THEN IF Above(similarity, 98, 100) /\ Below(length_diff, 1, 100)
                       THEN Verdict(FALSE, 9500, FALSE)
                       ELSE IF Above(similarity, 95, 100)
                            THEN Verdict(TRUE, (base_confidence * 9) \div 10, FALSE)
                            ELSE Verdict(TRUE, Min((base_confidence * 11) \div 10, 9900), FALSE)
                  ELSE Verdict(TRUE, base_confidence, FALSE),
             {"chunks"} \cup (IF content_similarity.some /\ ~high_chunk_change
                               THEN {"similarity"} ELSE {}))

MaxOf(numbers) == CHOOSE k \in numbers : \A other \in numbers : other <= k
MinOf(numbers) == CHOOSE k \in numbers : \A other \in numbers : k <= other

\* the length of the longest block of equal lines starting at a[i] and b[j]
MatchLen(a, i, b, j) ==
    MaxOf({k \in 0..Min(Len(a) - i + 1, Len(b) - j + 1) :
             \A m \in 0..(k - 1) : a[i + m] = b[j + m]})

\* of the blocks <<i, j, k>>: the longest, of those the one starting earliest
\* in a, of those the one starting earliest in b
EarliestInB(blocks, k, i) ==
    <<i, MinOf({c[2] : c \in {d \in blocks : d[3] = k /\ d[1] = i}}), k>>
EarliestInA(blocks, k) ==
    EarliestInB(blocks, k, MinOf({c[1] : c \in {d \in blocks : d[3] = k}}))
BestBlock(blocks) ==
    IF blocks = {} THEN <<0, 0, 0>>
    ELSE EarliestInA(blocks, MaxOf({c[3] : c \in blocks}))

\* SequenceMatcher.find_longest_match without junk; k = 0 when no line is shared
LongestMatch(a, b) ==
    BestBlock({<<c[1], c[2], MatchLen(a, c[1], b, c[2])>> :
                 c \in {d \in (1..Len(a)) \X (1..Len(b)) : a[d[1]] = b[d[2]]}})

\* SequenceMatcher(None, a, b): the number of matched lines, the sum of the
\* sizes of get_matching_blocks (the longest block, then recursively the
\* pieces to its left and to its right)
RECURSIVE Matches(_, _)
MatchesAround(a, b, block) ==
    IF block[3] = 0 THEN 0
    ELSE Matches(SubSeq(a, 1, block[1] - 1), SubSeq(b, 1, block[2] - 1))
           + block[3]
           + Matches(SubSeq(a, block[1] + block[3], Len(a)),
                     SubSeq(b, block[2] + block[3], Len(b)))
Matches(a, b) == MatchesAround(a, b, LongestMatch(a, b))

\* the lines outside the matching blocks (the delete, insert and replace spans)
RECURSIVE DifferingLines(_, _)
DifferingAround(a, b, block) ==
    IF block[3] = 0 THEN a \o b
    ELSE DifferingLines(SubSeq(a, 1, block[1] - 1), SubSeq(b, 1, block[2] - 1))
           \o DifferingLines(SubSeq(a, block[1] + block[3], Len(a)),
                             SubSeq(b, block[2] + block[3], Len(b)))
DifferingLines(a, b) == DifferingAround(a, b, LongestMatch(a, b))

\* a comparison without the quick length check of lines 466-472
enhanced_content_comparison_by_lines_only(old_content, new_content) ==
    [some |-> TRUE,
     similarity |-> IF Len(old_content) + Len(new_content) = 0 THEN <<1, 1>>
                    ELSE <<2 * Matches(old_content, new_content),
                           Len(old_content) + Len(new_content)>>,
     major_change |-> FALSE,
     length_diff |-> <<Abs(TextLen(old_content) - TextLen(new_content)),
                       Max(Max(TextLen(old_content), TextLen(new_content)), 1)>>]

enhanced_content_comparison(old_content, new_content) ==
    LET old_len == TextLen(old_content)
        new_len == TextLen(new_content)
        max_len == Max(old_len, new_len)
        length_diff == <<Abs(old_len - new_len), max_len>>
        lines == Len(old_content) + Len(new_content)
        line_similarity == IF lines = 0 THEN <<1, 1>>
                           ELSE <<2 * Matches(old_content, new_content), lines>>
        \* lines are atomic: the character matcher matches the characters of
        \* the matched lines and the newlines that follow them
        matched_chars == Matches(old_content, new_content) * (LineLen + 1)
        char_similarity == <<Min(2 * matched_chars, old_len + new_len), old_len + new_len>>
        similarity == IF max_len < SmallFileLimit
                         /\ char_similarity[1] * line_similarity[2]
                              > line_similarity[1] * char_similarity[2]
                      THEN char_similarity ELSE line_similarity
    IN  IF max_len = 0
        THEN [some |-> TRUE, similarity |-> <<1, 1>>, major_change |-> FALSE,
              length_diff |-> <<0, 1>>]
        ELSE IF Above(length_diff, 3, 10)
        THEN [some |-> TRUE, similarity |-> <<0, 1>>, major_change |-> TRUE,
              length_diff |-> length_diff]
        ELSE [some |-> TRUE, similarity |-> similarity,
              major_change |-> Below(similarity, 7, 10) \/ Above(length_diff, 2, 10),
              length_diff |-> length_diff]

---------------------------------------------------------------------------
(* Diff Renderer *)

\* lines 549-560 of chunk_large_content: the loop over the lines
RECURSIVE ChunkLoop(_, _, _, _)
ChunkLoop(lines, chunks, current_chunk, current_size) ==
    IF lines = <<>>
    THEN IF current_chunk # <<>> THEN Append(chunks, current_chunk) ELSE chunks
    ELSE LET line_size == LineLen + 1
         IN  IF current_size + line_size > DiffChunkLimit /\ current_chunk # <<>>
             THEN ChunkLoop(Tail(lines), Append(chunks, current_chunk),
                            <<Head(lines)>>, line_size)
             ELSE ChunkLoop(Tail(lines), chunks, Append(current_chunk, Head(lines)),
                            current_size + line_size)

chunk_large_content(content) ==
    IF TextLen(content) <= DiffChunkLimit THEN <<content>>
    ELSE ChunkLoop(content, <<>>, <<>>, 0)

\* significant_changes of generate_chunk_diff: a line of a delete, insert or
\* replace span that is neither blank nor a comment
generate_chunk_diff(old_chunk, new_chunk) ==
    LET differing == DifferingLines(old_chunk, new_chunk)
    IN  \E i \in 1..Len(differing) : IsCode(differing[i])

\* TRUE when an HTML report is returned, FALSE when None is
generate_enhanced_html_diff(old_content, new_content) ==
    LET old_chunks == chunk_large_content(old_content)
        new_chunks == chunk_large_content(new_content)
        max_chunks == Max(Len(old_chunks), Len(new_chunks))
    IN  \E i \in 1..max_chunks :
            generate_chunk_diff(IF i <= Len(old_chunks) THEN old_chunks[i] ELSE <<>>,
                                IF i <= Len(new_chunks) THEN new_chunks[i] ELSE <<>>)

---------------------------------------------------------------------------
(* Version Store *)

\* zlib.compress(content.encode("utf-8")) and its inverse
zlib_compress(text) == <<"zlib", text>>
zlib_decompress(data) == data[2]

\* sorted(os.listdir(url_dir), reverse=True): file names start with the
\* fixed-width capture time, so the order is by capture time, latest first
RECURSIVE SortedDescending(_)
SortedDescending(dir) ==
    IF dir = {} THEN <<>>
    ELSE LET latest == CHOOSE f \in dir : \A g \in dir : g.ts <= f.ts
         IN  <<latest>> \o SortedDescending(dir \ {latest})

\* store_content with a file name made of the hash alone
store_content_named_by_hash(dir, content, content_hash, now) ==
    {f \in dir : f.hash # content_hash}
        \cup {[ts |-> now, hash |-> content_hash, data |-> zlib_compress(content)]}

\* store_content: a new file named by the capture time and the hash
store_content(dir, content, content_hash, now) ==
    dir \cup {[ts |-> now, hash |-> content_hash, data |-> zlib_compress(content)]}

\* get_previous_content reading files[0], the latest file
get_previous_content_of_latest(dir) ==
    LET sorted_files == SortedDescending(dir)
    IN  IF Len(sorted_files) < 2 THEN <<>>
        ELSE <<zlib_decompress(sorted_files[1].data)>>

\* get_previous_content: <<>> for None, <<text>> for a text
get_previous_content(dir) ==
    LET sorted_files == SortedDescending(dir)
    IN  IF Len(sorted_files) < 2 THEN <<>>
        ELSE <<zlib_decompress(sorted_files[2].data)>>

\* "if previous_content:" neither None nor the empty string
Truthy(previous_content) == previous_content # <<>> /\ previous_content[1] # <<>>

\* the loop of clean_old_versions with the try around the whole loop
RECURSIVE DeleteLoop_stopping_at_failure(_, _, _)
DeleteLoop_stopping_at_failure(files_to_delete, failing, state) ==
    IF files_to_delete = <<>> THEN state
    ELSE LET file == Head(files_to_delete)
             attempted == [state EXCEPT !.attempted = @ \cup {file}]
         IN  IF file \in failing
             THEN attempted
             ELSE DeleteLoop_stopping_at_failure(Tail(files_to_delete), failing,
                             [attempted EXCEPT !.dir = @ \ {file},
                                               !.deleted_count = @ + 1])

\* lines 71-87 of clean_old_versions: the loop over files_to_delete; os.remove
\* raises for the files in failing
RECURSIVE DeleteLoop(_, _, _)
DeleteLoop(files_to_delete, failing, state) ==
    IF files_to_delete = <<>> THEN state
    ELSE LET file == Head(files_to_delete)
             attempted == [state EXCEPT !.attempted = @ \cup {file}]
         IN  IF file \in failing
             THEN DeleteLoop(Tail(files_to_delete), failing, attempted)
             ELSE DeleteLoop(Tail(files_to_delete), failing,
                             [attempted EXCEPT !.dir = @ \ {file},
                                               !.deleted_count = @ + 1])

\* files_to_delete over a listing sorted without reverse=True
files_to_delete_oldest_first(dir, versions_to_keep) ==
    LET sorted_files == SortedDescending(dir)
        ascending == [i \in 1..Len(sorted_files) |-> sorted_files[Len(sorted_files) + 1 - i]]
    IN  IF Len(ascending) > versions_to_keep
        THEN SubSeq(ascending, versions_to_keep + 1, Len(ascending))
        ELSE <<>>

\* files_to_delete = files[versions_to_keep:]
files_to_delete(dir, versions_to_keep) ==
    LET sorted_files == SortedDescending(dir)
    IN  IF Len(sorted_files) > versions_to_keep
        THEN SubSeq(sorted_files, versions_to_keep + 1, Len(sorted_files))
        ELSE <<>>

clean_old_versions(dir, versions_to_keep, failing) ==
    DeleteLoop(files_to_delete(dir, versions_to_keep), failing,
               [dir |-> dir, deleted_count |-> 0, attempted |-> {}])

---------------------------------------------------------------------------
(* The check cycle: monitor_single_url, one step per collaborator call *)

NoResult == [success |-> FALSE, changed |-> "absent", message |-> "none"]

NewCycle ==
    [text |-> <<>>, cur |-> generate_enhanced_ast_hash(<<>>), old_hash |-> None,
     old_hash_info |-> old_hash_info_of(None),
     classified |-> FALSE, verified |-> FALSE, previous_content |-> <<>>,
     verdict |-> Verdict(FALSE, 0, FALSE), first_verdict |-> Verdict(FALSE, 0, FALSE),
     changed |-> FALSE, message |-> "none",
     fetch |-> "ok", store_failed |-> FALSE, rendered |-> FALSE, html |-> FALSE,
     diff_saved |-> FALSE, save_failed |-> FALSE,
     reads |-> 0, stores |-> 0, notifs |-> 0,
     start_hash |-> last_hash, start_checked |-> last_checked, start_files |-> files]

Running(t) == pc[t] \notin {"idle", "done"}

\* no pure function is called on its own
NoCall == [op |-> "none"]

\* a new source and an empty directory
Source(checking_threads, cycles) ==
    /\ threads = checking_threads
    /\ cycles_allowed = cycles
    /\ files = {}
    /\ last_hash = None
    /\ last_checked = 0
    /\ saved_hash_info = NoFingerprint
    /\ clock = 1
    /\ passed = <<>>
    /\ pc = [t \in threads |-> "idle"]
    /\ cyc = [t \in threads |-> NewCycle]
    /\ result = [t \in threads |-> NoResult]
    /\ calls = 0
    /\ prune = [runs |-> 0, keep |-> 0, before |-> {}, after |-> {},
                deleted_count |-> 0, attempted |-> {}, failed |-> {}]

Start(checking_threads, cycles) == Source(checking_threads, cycles) /\ fn = NoCall

\* "if content is None" and the exception raised by download_javascript after
\* its retries
download_failed(fetch) == fetch # "ok"

\* the block of lines 973-990 without the verification against the previous
\* content
verify_change_never(old_hash_info, cur, previous_content, text) ==
    LET first == calculate_change_confidence(old_hash_info, cur, NoSimilarity)
    IN  [first |-> first, low |-> first.confidence < VerifyThreshold, verified |-> FALSE,
         final |-> first]

\* lines 973-990: the first verdict, and the verdict revised against the
\* previous content when the first one has a confidence below 0.80
Revised(old_hash_info, cur, previous_content, text, first) ==
    [first |-> first,
     low |-> first.confidence < VerifyThreshold,
     verified |-> first.confidence < VerifyThreshold /\ Truthy(previous_content),
     final |-> IF first.confidence < VerifyThreshold /\ Truthy(previous_content)
               THEN calculate_change_confidence(old_hash_info, cur,
                        enhanced_content_comparison(previous_content[1], text))
               ELSE first]

verify_change(old_hash_info, cur, previous_content, text) ==
    Revised(old_hash_info, cur, previous_content, text,
            calculate_change_confidence(old_hash_info, cur, NoSimilarity))

\* the same block in monitor_single_url: the previous fingerprint is rebuilt
\* from last_hash, the previous content is read from the directory
change_detection(old_hash, cur, dir, text) ==
    verify_change(old_hash_info_of(old_hash), cur, get_previous_content(dir), text)

\* cycle_branch without the test of old_hash_info['hash']
cycle_branch_without_first_check(old_hash, previous_content, text) ==
    IF Truthy(previous_content)
    THEN IF generate_enhanced_html_diff(previous_content[1], text)
         THEN "changes_detected"
         ELSE "no_significant"
    ELSE "no_previous"

\* lines 1012-1057: which message the cycle ends with
cycle_branch(old_hash, previous_content, text) ==
    IF old_hash # None
    THEN IF Truthy(previous_content)
         THEN IF generate_enhanced_html_diff(previous_content[1], text)
              THEN "changes_detected"
              ELSE "no_significant"
         ELSE "no_previous"
    ELSE "first_check"

\* the value of changed on each branch
changed_on(branch) == branch \in {"changes_detected", "no_previous"}

\* a notification on every branch that reports changed=True
sends_notification_when_changed(branch) == branch \in {"changes_detected", "no_previous"}

\* lines 1034-1043: the branch that saves a report and notifies
sends_notification(branch) == branch = "changes_detected"

\* a failure return that still stamps last_checked
ReturnFailure_stamping_last_checked(t, locals, message) ==
    /\ cyc' = [cyc EXCEPT ![t] = locals]
    /\ pc' = [pc EXCEPT ![t] = "done"]
    /\ result' = [result EXCEPT ![t] =
                    [success |-> FALSE, changed |-> "absent", message |-> message]]
    /\ last_checked' = last_checked + 1
    /\ UNCHANGED <<last_hash, clock, passed>>

\* the history of content arguments after a store at capture time now, and
\* after files were removed
Passing(now, content) ==
    [ts \in DOMAIN passed \cup {now} |-> IF ts = now THEN content ELSE passed[ts]]
Remaining(dir) == [ts \in {f.ts : f \in dir} \cap DOMAIN passed |-> passed[ts]]

\* lines 919-925 and 1079-1087: the cycle returns success=False
ReturnFailure(t, locals, message) ==
    /\ cyc' = [cyc EXCEPT ![t] = locals]
    /\ pc' = [pc EXCEPT ![t] = "done"]
    /\ result' = [result EXCEPT ![t] =
                    [success |-> FALSE, changed |-> "absent", message |-> message]]
    /\ UNCHANGED <<last_hash, last_checked, clock, passed>>

\* lines 915-970: download, deobfuscate, beautify, fingerprint, previous hash
Download(t) ==
    /\ ~Running(t)
    /\ calls < cycles_allowed
    /\ calls' = calls + 1
    /\ \E fetch \in {"ok", "none", "raise"} : \E text \in Texts :
         IF download_failed(fetch)
         THEN /\ text = <<>>
              /\ ReturnFailure(t, [NewCycle EXCEPT !.fetch = fetch],
                               IF fetch = "none" THEN "download_failed" ELSE "error")
         ELSE /\ cyc' = [cyc EXCEPT ![t] =
                           [NewCycle EXCEPT !.fetch = fetch, !.text = text,
                                            !.cur = generate_enhanced_ast_hash(text),
                                            !.old_hash = last_hash,
                                            !.old_hash_info = old_hash_info_of(last_hash)]]
              /\ pc' = [pc EXCEPT ![t] = "classify"]
              /\ result' = [result EXCEPT ![t] = NoResult]
              /\ UNCHANGED <<last_hash, last_checked, clock, passed>>
    /\ UNCHANGED <<files, threads, saved_hash_info, cycles_allowed, fn, prune>>

\* a cycle that renders the diff before it stores the snapshot
stage_after_diff_first(stage) ==
    CASE stage = "classify" -> "diff"
      [] stage = "diff" -> "store"
      [] stage = "store" -> "update"

\* the order of the statements of monitor_single_url after the verdict:
\* store_content (line 1008), the diff (lines 1011-1057), the update of the
\* record (lines 1059-1065)
stage_after(stage) ==
    CASE stage = "classify" -> "store"
      [] stage = "store" -> "diff"
      [] stage = "diff" -> "update"

\* lines 972-1002: classification, verification against the previous content,
\* and the early return of an unchanged verdict
Classify(t) ==
    /\ pc[t] = "classify"
    /\ LET c == cyc[t]
           d == change_detection(c.old_hash, c.cur, files, c.text)
       IN  IF c.old_hash = None
           THEN /\ pc' = [pc EXCEPT ![t] = stage_after("classify")]
                /\ UNCHANGED <<cyc, result, last_checked, clock, passed>>
           ELSE /\ cyc' = [cyc EXCEPT ![t] =
                             [c EXCEPT !.classified = TRUE, !.verified = d.verified,
                                       !.previous_content =
                                           IF d.low THEN get_previous_content(files)
                                           ELSE <<>>,
                                       !.first_verdict = d.first, !.verdict = d.final,
                                       !.reads = IF d.low THEN @ + 1 ELSE @]]
                /\ IF ~d.final.changed
                   THEN /\ last_checked' = last_checked + 1
                        /\ UNCHANGED <<clock, passed>>
                        /\ result' = [result EXCEPT ![t] =
                                        [success |-> TRUE, changed |-> "false",
                                         message |-> "no_changes"]]
                        /\ pc' = [pc EXCEPT ![t] = "done"]
                   ELSE /\ pc' = [pc EXCEPT ![t] = stage_after("classify")]
                        /\ UNCHANGED <<result, last_checked, clock, passed>>
    /\ UNCHANGED <<files, last_hash, threads, saved_hash_info, cycles_allowed, fn, calls, prune>>

\* lines 1006-1009: store_content, which may raise
Store(t) ==
    /\ pc[t] = "store"
    /\ \E stored \in BOOLEAN :
         IF stored
         THEN /\ files' = store_content(files, cyc[t].text, cyc[t].cur.hash, clock)
              /\ passed' = Passing(clock, cyc[t].text)
              /\ clock' = clock + 1
              /\ cyc' = [cyc EXCEPT ![t].stores = @ + 1]
              /\ pc' = [pc EXCEPT ![t] = stage_after("store")]
              /\ UNCHANGED <<result, last_hash, last_checked>>
         ELSE /\ ReturnFailure(t, [cyc[t] EXCEPT !.store_failed = TRUE], "error")
              /\ UNCHANGED files
    /\ UNCHANGED <<threads, saved_hash_info, cycles_allowed, fn, calls, prune>>

\* lines 1011-1057: previous content, diff, report, notification
Diff(t) ==
    /\ pc[t] = "diff"
    /\ LET c == cyc[t]
           previous_content == IF c.old_hash # None THEN get_previous_content(files)
                               ELSE <<>>
           branch == cycle_branch(c.old_hash, previous_content, c.text)
           after == [c EXCEPT !.reads = IF c.old_hash # None THEN @ + 1 ELSE @,
                              !.rendered = branch \in {"changes_detected", "no_significant"},
                              !.html = (branch = "changes_detected")]
       IN  \E saved \in BOOLEAN :
             IF sends_notification(branch) /\ ~saved
             THEN ReturnFailure(t, [after EXCEPT !.save_failed = TRUE], "error")
             ELSE /\ sends_notification(branch) \/ saved
                  /\ cyc' = [cyc EXCEPT ![t] =
                               [after EXCEPT !.diff_saved = sends_notification(branch),
                                             !.notifs = IF sends_notification(branch)
                                                        THEN @ + 1 ELSE @,
                                             !.changed = changed_on(branch),
                                             !.message = branch]]
                  /\ pc' = [pc EXCEPT ![t] = stage_after("diff")]
                  /\ UNCHANGED <<result, last_hash, last_checked, clock, passed>>
    /\ UNCHANGED <<files, threads, saved_hash_info, cycles_allowed, fn, calls, prune>>

\* lines 1059-1077: the record of the source is updated and committed
Update(t) ==
    /\ pc[t] = "update"
    /\ last_hash' = cyc[t].cur.hash
    /\ last_checked' = last_checked + 1
    /\ UNCHANGED <<clock, passed>>
    /\ result' = [result EXCEPT ![t] =
                    [success |-> TRUE,
                     changed |-> IF cyc[t].changed THEN "true" ELSE "false",
                     message |-> cyc[t].message]]
    /\ pc' = [pc EXCEPT ![t] = "done"]
    /\ saved_hash_info' = cyc[t].cur
    /\ UNCHANGED <<files, cyc, threads, cycles_allowed, fn, calls, prune>>

\* clean_old_versions, called by the content cleanup job between check cycles
Prune ==
    /\ \A t \in threads : ~Running(t)
    /\ prune.runs < MaxPrunes
    /\ \E keep \in 1..MaxKeep :
       \E failing \in SUBSET Range(files_to_delete(files, keep)) :
         LET done == clean_old_versions(files, keep, failing)
         IN  /\ Cardinality(failing) <= MaxFailing
             /\ files' = done.dir
             /\ passed' = Remaining(done.dir)
             /\ prune' = [runs |-> prune.runs + 1, keep |-> keep, before |-> files,
                          after |-> done.dir, deleted_count |-> done.deleted_count,
                          attempted |-> done.attempted,
                          failed |-> failing]
    /\ UNCHANGED <<last_hash, last_checked, clock, threads, saved_hash_info, cycles_allowed, fn, pc, cyc, result, calls>>

\* store_content called on its own, for the specification of the Version Store
StoreContent ==
    /\ calls < MaxStores
    /\ calls' = calls + 1
    /\ \E text \in StoreTexts :
         /\ files' = store_content(files, text, generate_enhanced_ast_hash(text).hash, clock)
         /\ passed' = Passing(clock, text)
    /\ clock' = clock + 1
    /\ UNCHANGED <<last_hash, last_checked, threads, saved_hash_info, cycles_allowed, fn, pc, cyc, result, prune>>

Cycle ==
    \/ \E t \in threads : Download(t)
    \/ \E t \in threads : Classify(t)
    \/ \E t \in threads : Store(t)
    \/ \E t \in threads : Diff(t)
    \/ \E t \in threads : Update(t)

\* one checking thread: check cycles and pruning, never overlapping
Init == Start({Thread1}, MaxCycles)
Next == Cycle \/ Prune
Spec == Init /\ [][Next]_vars

\* the scheduled job and a manual check (or two instances of the job) running
\* at the same time
InitConcurrent == Start({Thread1, Thread2}, MaxCycles)
NextConcurrent == Cycle
SpecConcurrent == InitConcurrent /\ [][NextConcurrent]_vars

\* one checking thread with one more cycle, for a failed cycle that is retried
\* after earlier cycles have left several snapshots
InitRetry == Start({Thread1}, MaxRetryCycles)
NextRetry == Cycle \/ Prune
SpecRetry == InitRetry /\ [][NextRetry]_vars

\* the Version Store on its own
InitStore == Start({}, 0)
NextStore == StoreContent \/ Prune
SpecStore == InitStore /\ [][NextStore]_vars

---------------------------------------------------------------------------
(* The Change Classifier on its own: calculate_change_confidence and       *)
(* compare_chunk_hashes applied to pairs of fingerprints.                  *)

\* texts whose fingerprints use each method: parsed (ast), rejected by the
\* parser and short (simple_content), rejected and longer than ChunkSize
\* (position_aware_chunked)
FingerprintTexts ==
    { <<"a">>, <<"b">>, <<Broken>>, <<Broken, "a">>, <<Broken, "b">>, <<"a", Broken>> }

\* a chunked fingerprint whose chunk list lost its tail
Truncated(hash_info) ==
    [hash_info EXCEPT !.chunk_details = SubSeq(@, 1, Min(Len(@), 1))]

\* the fingerprints of the texts, the legacy fingerprints rebuilt from their
\* hashes, and the truncated ones
Fingerprints ==
    LET computed == { generate_enhanced_ast_hash(text) : text \in FingerprintTexts }
    IN  computed \cup { old_hash_info_of(hash_info.hash) : hash_info \in computed }
                 \cup { Truncated(hash_info) : hash_info \in computed }

\* content_similarity: None, or what enhanced_content_comparison can return
Similarities ==
    {NoSimilarity}
        \cup { [some |-> TRUE, similarity |-> <<0, 1>>, major_change |-> TRUE,
                length_diff |-> <<1, 2>>] }
        \cup { [some |-> TRUE, similarity |-> similarity, major_change |-> FALSE,
                length_diff |-> length_diff] :
                similarity \in { <<1, 2>>, <<96, 100>>, <<99, 100>>, <<997, 1000>>, <<1, 1>> },
                length_diff \in { <<0, 1>>, <<1, 10>> } }

NoVerdict == Verdict(FALSE, 0, FALSE)

ClassifierInputs ==
    [op : {"input"}, old_hash_info : Fingerprints, new_hash_info : Fingerprints,
     content_similarity : Similarities, verdict : {NoVerdict}, chunk_result : {NoChunkResult}]

CallClassifier ==
    /\ fn.op = "input"
    /\ fn' = [fn EXCEPT !.op = "classified",
                        !.verdict = calculate_change_confidence(
                                        fn.old_hash_info, fn.new_hash_info,
                                        fn.content_similarity)]
    /\ UNCHANGED <<files, last_hash, last_checked, clock, passed, threads, saved_hash_info, cycles_allowed,
                   pc, cyc, result, calls, prune>>

CallChunkComparison ==
    /\ fn.op = "input"
    /\ fn' = [fn EXCEPT !.op = "compared",
                        !.chunk_result = compare_chunk_hashes(fn.old_hash_info,
                                                              fn.new_hash_info)]
    /\ UNCHANGED <<files, last_hash, last_checked, clock, passed, threads, saved_hash_info, cycles_allowed,
                   pc, cyc, result, calls, prune>>

InitClassifier == Source({}, 0) /\ fn \in ClassifierInputs
NextClassifier == CallClassifier \/ CallChunkComparison
SpecClassifier == InitClassifier /\ [][NextClassifier]_vars

---------------------------------------------------------------------------
(* The Fingerprint Engine on its own: generate_enhanced_ast_hash called    *)
(* twice on one text, with a call on another text in between.              *)

\* a parsed text longer than AstSizeLimit
LongText == Repeat("a", AstSizeLimit \div LineLen + 1)

HashTexts ==
    FingerprintTexts
        \cup { <<>>, <<"a", Comment>>, <<Deep1>>, <<Deep2>>, LongText,
               <<Surrogate>>, <<Broken, Surrogate>>, LongText \o <<Surrogate>>,
               <<Broken, Fill>>, <<Broken, FillPlus>>, <<"a", Fill>>, <<"a", FillPlus>> }

\* one call: what it returns, or that it raises
Fingerprinted(text) ==
    IF generate_enhanced_ast_hash_raises(text)
    THEN [raised |-> TRUE, hash_info |-> NoFingerprint]
    ELSE [raised |-> FALSE, hash_info |-> generate_enhanced_ast_hash(text)]

NotCalled == [raised |-> FALSE, hash_info |-> NoFingerprint]

FingerprintInputs ==
    [op : {"input"}, text : HashTexts, other : {<<"b">>, <<Broken, "a">>, <<Broken, Fill>>},
     count : {0}, first : {NotCalled}, between : {NotCalled}, second : {NotCalled}]

FirstCall ==
    /\ fn.op = "input"
    /\ fn' = [fn EXCEPT !.op = "first", !.count = @ + 1, !.first = Fingerprinted(fn.text)]
    /\ UNCHANGED <<files, last_hash, last_checked, clock, passed, threads, saved_hash_info, cycles_allowed,
                   pc, cyc, result, calls, prune>>

OtherCall ==
    /\ fn.op = "first"
    /\ fn' = [fn EXCEPT !.op = "between", !.count = @ + 1,
                         !.between = Fingerprinted(fn.other)]
    /\ UNCHANGED <<files, last_hash, last_checked, clock, passed, threads, saved_hash_info, cycles_allowed,
                   pc, cyc, result, calls, prune>>

SecondCall ==
    /\ fn.op \in {"first", "between"}
    /\ fn' = [fn EXCEPT !.op = "second", !.count = @ + 1, !.second = Fingerprinted(fn.text)]
    /\ UNCHANGED <<files, last_hash, last_checked, clock, passed, threads, saved_hash_info, cycles_allowed,
                   pc, cyc, result, calls, prune>>

InitFingerprint == Source({}, 0) /\ fn \in FingerprintInputs
NextFingerprint == FirstCall \/ OtherCall \/ SecondCall
SpecFingerprint == InitFingerprint /\ [][NextFingerprint]_vars

---------------------------------------------------------------------------
(* The Diff Renderer on its own: generate_enhanced_html_diff applied to    *)
(* a previous and a current text.                                          *)

\* the number of whole lines that fit into one chunk of chunk_large_content
LinesPerChunk == DiffChunkLimit \div (LineLen + 1)

\* a text of code lines that chunk_large_content splits
LargeText == Repeat("a", LinesPerChunk + 1)

DiffTexts ==
    { <<>>, <<"a">>, <<"b">>, <<"a", Comment>>, <<Comment, "a">>, <<"a", "">>,
      <<"a", "b">>, LargeText, <<Comment>> \o LargeText, LargeText \o <<Comment>> }

DiffInputs == [op : {"input"}, old_content : DiffTexts, new_content : DiffTexts,
               report : {FALSE}]

CallDiff ==
    /\ fn.op = "input"
    /\ fn' = [fn EXCEPT !.op = "rendered",
                        !.report = generate_enhanced_html_diff(fn.old_content, fn.new_content)]
    /\ UNCHANGED <<files, last_hash, last_checked, clock, passed, threads, saved_hash_info, cycles_allowed,
                   pc, cyc, result, calls, prune>>

InitDiff == Source({}, 0) /\ fn \in DiffInputs
NextDiff == CallDiff
SpecDiff == InitDiff /\ [][NextDiff]_vars

---------------------------------------------------------------------------
(* run_monitoring_check: one pass over the table of monitored URLs.  Each  *)
(* row has its own last_hash and its own directory in the Version Store.   *)

Urls == 1..MaxUrls

Row(active, last_hash_of_row, dir) ==
    [active |-> active, last_hash |-> last_hash_of_row, files |-> dir]

\* the directory after successful checks of the given texts
RECURSIVE Stored(_, _)
Stored(dir, texts) ==
    IF texts = <<>> THEN dir
    ELSE Stored(store_content(dir, Head(texts), generate_enhanced_ast_hash(Head(texts)).hash,
                              Cardinality(dir) + 1),
                Tail(texts))

\* rows as earlier passes leave them: never checked, checked once, checked
\* twice with a change in between
Rows ==
    { Row(active, None, {}) : active \in BOOLEAN }
        \cup { Row(active, generate_enhanced_ast_hash(<<"a">>).hash, Stored({}, <<<<"a">>>>))
                 : active \in BOOLEAN }
        \cup { Row(active, generate_enhanced_ast_hash(<<"b">>).hash,
                   Stored({}, <<<<"a">>, <<"b">>>>)) : active \in BOOLEAN }

Failure(message) == [success |-> FALSE, changed |-> "absent", message |-> message]

\* monitor_single_url as one call: its return value and the row it leaves.
\* fetch, stored and saved are the outcomes of download_javascript,
\* store_content and save_diff_file.
monitor_single_url(row, fetch, text, stored, saved) ==
    LET cur == generate_enhanced_ast_hash(text)
        d == change_detection(row.last_hash, cur, row.files, text)
        after_store == store_content(row.files, text, cur.hash, Cardinality(row.files) + 1)
        previous_content == IF row.last_hash # None THEN get_previous_content(after_store)
                            ELSE <<>>
        branch == cycle_branch(row.last_hash, previous_content, text)
    IN  IF download_failed(fetch)
        THEN [result |-> Failure(IF fetch = "none" THEN "download_failed" ELSE "error"),
              row |-> row]
        ELSE IF row.last_hash # None /\ ~d.final.changed
        THEN [result |-> [success |-> TRUE, changed |-> "false", message |-> "no_changes"],
              row |-> row]
        ELSE IF ~stored
        THEN [result |-> Failure("error"), row |-> row]
        ELSE IF sends_notification(branch) /\ ~saved
        THEN [result |-> Failure("error"), row |-> [row EXCEPT !.files = after_store]]
        ELSE [result |-> [success |-> TRUE,
                          changed |-> IF changed_on(branch) THEN "true" ELSE "false",
                          message |-> branch],
              row |-> [row EXCEPT !.last_hash = cur.hash, !.files = after_store]]

\* MonitoredUrl.query.filter_by(active=True).all(), in the order of the ids
RECURSIVE ActiveFrom(_, _)
ActiveFrom(table, id) ==
    IF id > MaxUrls THEN <<>>
    ELSE (IF table[id].active THEN <<id>> ELSE <<>>) \o ActiveFrom(table, id + 1)

active_urls(table) == ActiveFrom(table, 1)

\* a loop that gives up at the first failed check
loop_goes_on_after_success(check) == check.success

\* the for loop of lines 1108-1115 has no break and no return
loop_goes_on(check) == TRUE

NoSummary == [returned |-> FALSE, changes_detected |-> FALSE, urls_checked |-> 0,
              has_results |-> FALSE]

PassInputs ==
    [op : {"pass"}, table : [Urls -> Rows], start : {<<>>}, position : {0}, stopped : {FALSE},
     results : {<<>>}, checked : {[u \in Urls |-> 0]}, changes_detected : {FALSE},
     summary : {NoSummary}]

\* lines 1093-1107: the query, and the return when no URL is active
StartPass ==
    /\ fn.op = "pass" /\ fn.position = 0 /\ ~fn.summary.returned
    /\ IF active_urls(fn.table) = <<>>
       THEN fn' = [fn EXCEPT !.summary = [NoSummary EXCEPT !.returned = TRUE]]
       ELSE fn' = [fn EXCEPT !.position = 1, !.start = fn.table]
    /\ UNCHANGED <<files, last_hash, last_checked, clock, passed, threads, saved_hash_info, cycles_allowed,
                   pc, cyc, result, calls, prune>>

\* lines 1108-1115: one iteration of the loop
CheckUrl ==
    /\ fn.op = "pass" /\ fn.position >= 1 /\ ~fn.stopped
    /\ fn.position <= Len(active_urls(fn.start))
    /\ LET url == active_urls(fn.start)[fn.position]
       IN  \E fetch \in {"ok", "none", "raise"} : \E text \in StoreTexts :
           \E stored \in BOOLEAN : \E saved \in BOOLEAN :
             LET done == monitor_single_url(fn.table[url], fetch, text, stored, saved)
             IN  fn' = [fn EXCEPT !.table[url] = done.row,
                                  !.results = Append(@, done.result),
                                  !.checked[url] = @ + 1,
                                  !.changes_detected = @ \/ done.result.changed = "true",
                                  !.stopped = ~loop_goes_on(done.result),
                                  !.position = @ + 1]
    /\ UNCHANGED <<files, last_hash, last_checked, clock, passed, threads, saved_hash_info, cycles_allowed,
                   pc, cyc, result, calls, prune>>

\* lines 1117-1151: the summary that is returned
FinishPass ==
    /\ fn.op = "pass" /\ fn.position >= 1 /\ ~fn.summary.returned
    /\ fn.stopped \/ fn.position > Len(active_urls(fn.start))
    /\ fn' = [fn EXCEPT !.summary = [returned |-> TRUE,
                                     changes_detected |-> fn.changes_detected,
                                     urls_checked |-> Len(active_urls(fn.start)),
                                     has_results |-> TRUE]]
    /\ UNCHANGED <<files, last_hash, last_checked, clock, passed, threads, saved_hash_info, cycles_allowed,
                   pc, cyc, result, calls, prune>>

InitPass == Source({}, 0) /\ fn \in PassInputs
NextPass == StartPass \/ CheckUrl \/ FinishPass
SpecPass == InitPass /\ [][NextPass]_vars

---------------------------------------------------------------------------
(* Lines 973-990 of monitor_single_url on their own: the first verdict and  *)
(* its verification, for the previous fingerprints of both branches of      *)
(* lines 953-970 (rebuilt from last_hash, or loaded in full).               *)

PreviousContents == { <<>>, <<<<>>>>, <<<<"a">>>>, <<<<"a", Comment>>>>, <<<<"b">>>> }

VerificationInputs ==
    [op : {"input"}, old_hash_info : Fingerprints, text : FingerprintTexts,
     previous_content : PreviousContents,
     detection : {verify_change(NoFingerprint, NoFingerprint, <<>>, <<>>)}]

CallVerification ==
    /\ fn.op = "input"
    /\ fn' = [fn EXCEPT !.op = "detected",
                        !.detection = verify_change(fn.old_hash_info,
                                          generate_enhanced_ast_hash(fn.text),
                                          fn.previous_content, fn.text)]
    /\ UNCHANGED <<files, last_hash, last_checked, clock, passed, threads, saved_hash_info,
                   cycles_allowed, pc, cyc, result, calls, prune>>

InitVerification == Source({}, 0) /\ fn \in VerificationInputs
NextVerification == CallVerification
SpecVerification == InitVerification /\ [][NextVerification]_vars

---------------------------------------------------------------------------
(* enhanced_content_comparison and the classifier on its result: the        *)
(* verification of lines 981-989 for a previous and a current text.         *)

ComparedTexts ==
    { <<>>, <<"a">>, <<"b">>, <<"a", Comment>>, <<"a", "b">>, <<"a", "b", "a">>,
      <<Broken>>, <<Broken, "a">>, <<Broken, "a", "b">> }

ComparisonInputs ==
    [op : {"input"}, old_content : ComparedTexts, new_content : ComparedTexts,
     loaded_in_full : BOOLEAN, comparison : {NoSimilarity}, verdict : {NoVerdict}]

\* the previous fingerprint of lines 953-970 for a previous text
PreviousFingerprint(old_content, loaded_in_full) ==
    IF loaded_in_full THEN generate_enhanced_ast_hash(old_content)
    ELSE old_hash_info_of(generate_enhanced_ast_hash(old_content).hash)

CallComparison ==
    /\ fn.op = "input"
    /\ fn' = [fn EXCEPT !.op = "compared",
                        !.comparison = enhanced_content_comparison(fn.old_content,
                                                                   fn.new_content)]
    /\ UNCHANGED <<files, last_hash, last_checked, clock, passed, threads, saved_hash_info,
                   cycles_allowed, pc, cyc, result, calls, prune>>

ClassifyComparison ==
    /\ fn.op = "compared"
    /\ fn' = [fn EXCEPT !.op = "classified",
                        !.verdict = calculate_change_confidence(
                                        PreviousFingerprint(fn.old_content, fn.loaded_in_full),
                                        generate_enhanced_ast_hash(fn.new_content),
                                        fn.comparison)]
    /\ UNCHANGED <<files, last_hash, last_checked, clock, passed, threads, saved_hash_info,
                   cycles_allowed, pc, cyc, result, calls, prune>>

InitComparison == Source({}, 0) /\ fn \in ComparisonInputs
NextComparison == CallComparison \/ ClassifyComparison
SpecComparison == InitComparison /\ [][NextComparison]_vars

---------------------------------------------------------------------------
(* Chunked fingerprints of two texts and their comparison:                  *)
(* generate_position_aware_hash on a previous and a current text, then      *)
(* compare_chunk_hashes on the two results.                                 *)

\* lines that differ from one another, two of them in a timestamp only
ChunkLines == {"a", "b", Stamp1, Stamp2}

\* texts of five lines that the parser rejects: line 1 lies inside the
\* window of chunk 0, line 5 behind the window of chunk 2
ChunkedTexts == { <<first, Broken, "a", "a", last>> : first \in ChunkLines, last \in ChunkLines }

ChunkInputs ==
    [op : {"input"}, old_text : ChunkedTexts, new_text : ChunkedTexts,
     old_hash_info : {NoFingerprint}, new_hash_info : {NoFingerprint},
     chunk_result : {NoChunkResult}, verdict : {NoVerdict}]

FingerprintOld ==
    /\ fn.op = "input"
    /\ fn' = [fn EXCEPT !.op = "old", !.old_hash_info = generate_enhanced_ast_hash(fn.old_text)]
    /\ UNCHANGED <<files, last_hash, last_checked, clock, passed, threads, saved_hash_info,
                   cycles_allowed, pc, cyc, result, calls, prune>>

FingerprintNew ==
    /\ fn.op = "old"
    /\ fn' = [fn EXCEPT !.op = "new", !.new_hash_info = generate_enhanced_ast_hash(fn.new_text)]
    /\ UNCHANGED <<files, last_hash, last_checked, clock, passed, threads, saved_hash_info,
                   cycles_allowed, pc, cyc, result, calls, prune>>

CompareChunks ==
    /\ fn.op = "new"
    /\ fn' = [fn EXCEPT !.op = "compared",
                        !.chunk_result = compare_chunk_hashes(fn.old_hash_info,
                                                              fn.new_hash_info)]
    /\ UNCHANGED <<files, last_hash, last_checked, clock, passed, threads, saved_hash_info,
                   cycles_allowed, pc, cyc, result, calls, prune>>

\* calculate_change_confidence as monitor_single_url first calls it (line 973)
ClassifyChunks ==
    /\ fn.op = "compared"
    /\ fn' = [fn EXCEPT !.op = "classified",
                        !.verdict = calculate_change_confidence(fn.old_hash_info,
                                                                fn.new_hash_info,
                                                                NoSimilarity)]
    /\ UNCHANGED <<files, last_hash, last_checked, clock, passed, threads, saved_hash_info,
                   cycles_allowed, pc, cyc, result, calls, prune>>

InitChunks == Source({}, 0) /\ fn \in ChunkInputs
NextChunks == FingerprintOld \/ FingerprintNew \/ CompareChunks \/ ClassifyChunks
SpecChunks == InitChunks /\ [][NextChunks]_vars

---------------------------------------------------------------------------
(* The windows of generate_position_aware_hash for a text of a given        *)
(* length: the loop of lines 294-319 without the hashing.                   *)

\* 'start' and 'end' of the chunks kept for a text of n characters
RetainedWindows(n) ==
    [c \in 1..Len(ChunkStarts(n)) |->
        [start |-> ChunkStarts(n)[c], end |-> Min(ChunkStarts(n)[c] + ChunkSize, n)]]

\* lengths above chunk_size whose last window has 1 .. MaxExcess characters
WindowLengths ==
    { k * (ChunkSize \div 2) + excess : k \in 2..3, excess \in 1..MaxExcess }

WindowInputs == [op : {"input"}, length : WindowLengths, windows : {<<>>}]

SplitIntoWindows ==
    /\ fn.op = "input"
    /\ fn' = [fn EXCEPT !.op = "split", !.windows = RetainedWindows(fn.length)]
    /\ UNCHANGED <<files, last_hash, last_checked, clock, passed, threads, saved_hash_info,
                   cycles_allowed, pc, cyc, result, calls, prune>>

InitWindows == Source({}, 0) /\ fn \in WindowInputs
NextWindows == SplitIntoWindows
SpecWindows == InitWindows /\ [][NextWindows]_vars

---------------------------------------------------------------------------
(* Properties of the check cycle.  They are stated on the states in which  *)
(* a call of monitor_single_url has returned (pc is "done"): cyc holds the *)
(* locals and the counters of that call, result what it returned.          *)

C3_SnapshotOnEverySuccess ==
    \A t \in threads :
        (pc[t] = "done" /\ result[t].success) => cyc[t].stores = 1

\* C3, amended: a successful cycle has stored exactly one snapshot when it is
\* a first check or its verdict is changed, and none when it returns "No
\* changes detected"; the store step adds one file and removes none, and only
\* a clean_old_versions call removes files.
C3_SnapshotOnFirstCheckOrChange ==
    /\ [](\A t \in threads :
            (pc[t] = "done" /\ result[t].success) =>
                cyc[t].stores = IF result[t].message = "no_changes" THEN 0 ELSE 1)
    /\ [][/\ ~(files \subseteq files') => prune'.runs = prune.runs + 1
          /\ \A t \in threads :
                (pc[t] = "store" /\ pc'[t] = "diff") =>
                    (files \subseteq files' /\ Cardinality(files' \ files) = 1)]_vars

\* a successful cycle with its one snapshot, after pruning has removed files
C3_Witness ==
    \E t \in threads :
        /\ pc[t] = "done" /\ result[t].success /\ cyc[t].stores = 1
        /\ result[t].message = "changes_detected"
        /\ prune.deleted_count >= 1

\* C4 as stated: a cycle that finds a differing stored hash, previous content
\* and a diff report, and saves the report, returns success=true and
\* changed=true, has written the store once, has read the previous content
\* once and has sent one notification.
C4_ChangeDetected ==
    \A t \in threads :
        (pc[t] = "done" /\ cyc[t].fetch = "ok" /\ cyc[t].start_hash # None
            /\ cyc[t].cur.hash # cyc[t].start_hash
            /\ cyc[t].html /\ cyc[t].diff_saved) =>
            /\ result[t].success
            /\ result[t].changed = "true"
            /\ cyc[t].stores = 1
            /\ cyc[t].reads = 1
            /\ cyc[t].notifs = 1

C6_FetchFailure ==
    \A t \in threads :
        (pc[t] = "done" /\ cyc[t].fetch # "ok") =>
            /\ ~result[t].success
            /\ result[t].changed # "true"
            /\ cyc[t].stores = 0
            /\ cyc[t].reads = 0
            /\ cyc[t].notifs = 0
            /\ last_hash = cyc[t].start_hash
            /\ last_checked = cyc[t].start_checked

C6_Witness ==
    \E t \in threads :
        /\ pc[t] = "done" /\ cyc[t].fetch = "raise"
        /\ last_hash # None /\ last_checked > 0 /\ files # {}

C8_CyclesNeverInterleave ==
    \A t \in threads : \A u \in threads \ {t} : ~(Running(t) /\ Running(u))

---------------------------------------------------------------------------
(* Properties of the Version Store, stated on the record of the last       *)
(* clean_old_versions call.                                                *)

\* C9: a clean_old_versions call with versions_to_keep = N on a directory of
\* N + k files in which no deletion fails leaves exactly N files, each of
\* them later than every deleted one, returns k, and keeps the latest file.
C9_Retention ==
    (prune.runs > 0 /\ prune.failed = {} /\ Cardinality(prune.before) >= prune.keep) =>
        /\ prune.after \subseteq prune.before
        /\ Cardinality(prune.after) = prune.keep
        /\ \A kept \in prune.after : \A gone \in prune.before \ prune.after :
               gone.ts < kept.ts
        /\ prune.deleted_count = Cardinality(prune.before) - prune.keep
        /\ \A f \in prune.before :
               (\A g \in prune.before : g.ts <= f.ts) => f \in prune.after

\* N = MaxKeep and k = 2
C9_Witness ==
    /\ prune.runs > 0 /\ prune.failed = {}
    /\ prune.keep = MaxKeep
    /\ Cardinality(prune.before) = prune.keep + 2
    /\ prune.deleted_count = 2

\* C10: a clean_old_versions call attempts every file beyond the
\* versions_to_keep latest, whichever deletions fail; the files whose deletion
\* failed stay, the others are gone, and the returned count is the number of
\* files gone.
C10_DeleteFailures ==
    prune.runs > 0 =>
        LET candidates == {f \in prune.before :
                              Cardinality({g \in prune.before : g.ts > f.ts}) >= prune.keep}
        IN  /\ prune.attempted = candidates
            /\ prune.failed \subseteq prune.after
            /\ prune.after = prune.before \ (candidates \ prune.failed)
            /\ prune.deleted_count = Cardinality(prune.before \ prune.after)

\* a deletion failed and a candidate that comes after it in the loop is gone
C10_Witness ==
    /\ prune.runs > 0
    /\ \E f \in prune.failed : \E g \in prune.before \ prune.after : g.ts < f.ts
    /\ prune.deleted_count >= 1

\* C11: get_previous_content returns none when the directory holds fewer than
\* two files, and otherwise the content argument of the store_content call
\* that wrote the second-latest file still present.
C11_PreviousContent ==
    IF Cardinality(files) < 2
    THEN get_previous_content(files) = <<>>
    ELSE \E second \in files :
            /\ Cardinality({f \in files : f.ts > second.ts}) = 1
            /\ get_previous_content(files) = <<passed[second.ts]>>

\* after stores and a pruning that removed files, the second-latest file was
\* written with another text than the latest
C11_Witness ==
    /\ prune.deleted_count >= 1
    /\ Cardinality(files) >= 2
    /\ \E second \in files : \E latest \in files :
          /\ Cardinality({f \in files : f.ts > second.ts}) = 1
          /\ latest.ts > second.ts
          /\ passed[latest.ts] # passed[second.ts]
          /\ get_previous_content(files) = <<passed[second.ts]>>

---------------------------------------------------------------------------
(* Properties of the Change Classifier *)

\* C12: for fingerprints with equal hashes, whatever their methods, chunk
\* lists and the similarity supplied, calculate_change_confidence returns
\* changed=false with confidence 0.99 and has run no chunk or similarity
\* analysis.
C12_EqualHashes ==
    (fn.op = "classified" /\ fn.old_hash_info.hash = fn.new_hash_info.hash) =>
        /\ ~fn.verdict.changed
        /\ fn.verdict.confidence = 9900
        /\ fn.verdict.analysed = {}

\* equal hashes, different methods and chunk lists, and a similarity result
\* that reports a major change
C12_Witness ==
    /\ fn.op = "classified"
    /\ fn.old_hash_info.hash = fn.new_hash_info.hash
    /\ fn.old_hash_info.method # fn.new_hash_info.method
    /\ fn.old_hash_info.chunk_details # fn.new_hash_info.chunk_details
    /\ fn.content_similarity.some /\ fn.content_similarity.major_change
    /\ ~fn.verdict.changed

\* C13: the confidence returned by calculate_change_confidence, and by
\* compare_chunk_hashes when it returns a result, is between 0 and 1.
C13_ConfidenceRange ==
    /\ fn.op = "classified" =>
          (fn.verdict.confidence >= 0 /\ fn.verdict.confidence <= 10000)
    /\ (fn.op = "compared" /\ fn.chunk_result.some) =>
          (fn.chunk_result.confidence >= 0 /\ fn.chunk_result.confidence <= 10000)

\* two ast fingerprints (confidence 0.95) of texts of low similarity: the
\* confidence 0.95 * 1.1 is capped at 0.99
C13_Witness ==
    /\ fn.op = "classified"
    /\ fn.old_hash_info.confidence = 9500 /\ fn.new_hash_info.confidence = 9500
    /\ fn.old_hash_info.hash # fn.new_hash_info.hash
    /\ fn.content_similarity.some /\ ~Above(fn.content_similarity.similarity, 95, 100)
    /\ fn.verdict.confidence = 9900

---------------------------------------------------------------------------
(* Properties of the Fingerprint Engine *)

\* C14 as stated: every call of generate_enhanced_ast_hash returns a
\* fingerprint with a hash, a method and a confidence; none raises.
C14_FingerprintNeverFails ==
    fn.op \in {"first", "between", "second"} =>
        /\ ~fn.first.raised
        /\ fn.first.hash_info.hash # None
        /\ fn.first.hash_info.method \in {"ast", "simple_content", "position_aware_chunked"}
        /\ fn.first.hash_info.confidence > 0

---------------------------------------------------------------------------
(* Properties of the Diff Renderer *)

\* every line that differs between the two whole texts is blank or a comment
OnlyCosmeticLinesDiffer(old_content, new_content) ==
    LET differing == DifferingLines(old_content, new_content)
    IN  \A i \in 1..Len(differing) : ~IsCode(differing[i])

\* C16 as stated: generate_enhanced_html_diff returns None whenever every
\* line that differs between the previous and the current text is blank or
\* comment-only, whatever the size of the texts.
C16_CosmeticDiffIsNone ==
    (fn.op = "rendered" /\ OnlyCosmeticLinesDiffer(fn.old_content, fn.new_content)) =>
        ~fn.report

---------------------------------------------------------------------------
(* Properties of run_monitoring_check *)

\* the URLs that were active when the pass made its query
ActiveAtStart == {u \in Urls : fn.table[u].active}

\* C17: when run_monitoring_check returns, every active URL has been checked
\* exactly once and no other URL at all; urls_checked and the number of
\* results equal the number of active URLs; changes_detected is true exactly
\* when some result has changed=true; with no active URL it returns
\* urls_checked=0 and changes_detected=false without results.
C17_OnePassOverActiveUrls ==
    (fn.op = "pass" /\ fn.summary.returned) =>
        /\ \A u \in Urls : fn.checked[u] = IF u \in ActiveAtStart THEN 1 ELSE 0
        /\ fn.summary.urls_checked = Cardinality(ActiveAtStart)
        /\ fn.summary.has_results => Len(fn.results) = Cardinality(ActiveAtStart)
        /\ fn.summary.changes_detected
             <=> \E i \in 1..Len(fn.results) : fn.results[i].changed = "true"
        /\ ActiveAtStart = {} => /\ fn.summary.urls_checked = 0
                                 /\ ~fn.summary.changes_detected
                                 /\ ~fn.summary.has_results

\* a pass over two active URLs whose first check failed and whose second
\* check found a change
C17_Witness ==
    /\ fn.op = "pass" /\ fn.summary.returned
    /\ Len(fn.results) = 2
    /\ ~fn.results[1].success
    /\ fn.results[2].changed = "true"
    /\ fn.summary.changes_detected

---------------------------------------------------------------------------
(* Properties of the order of the stages *)

\* a step of thread t that renders the diff; a step that writes the snapshot
RendersDiff(t) == ~cyc[t].rendered /\ cyc'[t].rendered
WritesSnapshot(t) == cyc'[t].stores = cyc[t].stores + 1

\* C18 as stated: in a cycle that renders a diff and stores a snapshot, the
\* diff is rendered before the snapshot is written, so no snapshot of the
\* cycle exists yet when the diff is rendered.
C18_DiffBeforeStore ==
    [][\A t \in threads : RendersDiff(t) => cyc[t].stores = 0]_vars

\* C18 amended: the stages run in the order fingerprint, classify, store,
\* diff.  The snapshot is written after the fingerprint is computed and, when
\* the source has a previous hash, after the verdict; the diff is rendered
\* after the snapshot of the cycle is written.
C18_StoreBeforeDiff ==
    [][\A t \in threads :
         /\ WritesSnapshot(t) =>
              /\ cyc[t].cur = generate_enhanced_ast_hash(cyc[t].text)
              /\ cyc[t].old_hash # None => cyc[t].classified
              /\ ~cyc[t].rendered
         /\ RendersDiff(t) => cyc[t].stores = 1 /\ cyc'[t].stores = 1]_vars

\* a cycle has classified, stored its snapshot and rendered the diff
C18_Witness ==
    \E t \in threads : cyc[t].classified /\ cyc[t].stores = 1 /\ cyc[t].rendered /\ cyc[t].html

---------------------------------------------------------------------------
(* Properties of the previous fingerprint *)

\* C19 as stated: the previous fingerprint a cycle works with is the
\* fingerprint saved by the last cycle that updated the source: the same hash,
\* method, confidence and chunk list.
C19_PreviousFingerprintIsSaved ==
    \A t \in threads :
        (Running(t) /\ cyc[t].old_hash # None) =>
            /\ cyc[t].old_hash_info.hash = saved_hash_info.hash
            /\ cyc[t].old_hash_info.method = saved_hash_info.method
            /\ cyc[t].old_hash_info.confidence = saved_hash_info.confidence
            /\ cyc[t].old_hash_info.chunk_details = saved_hash_info.chunk_details

---------------------------------------------------------------------------
(* Properties of the verification of a first verdict *)

\* the threshold of should_do_additional_verification
escalation_threshold(change_result) ==
    IF change_result.has_important_change THEN ImportantEscalationThreshold
    ELSE EscalationThreshold

---------------------------------------------------------------------------
(* Properties of the classifier on chunked fingerprints *)

BothChunked ==
    /\ fn.old_hash_info.method = "position_aware_chunked"
    /\ fn.new_hash_info.method = "position_aware_chunked"

\* the similarity that overrides a change: 0.999 when an important chunk
\* changed, 0.995 otherwise
SimilarityBelowOverride(chunk_result, similarity) ==
    IF chunk_result.has_important_change THEN Below(similarity, 999, 1000)
    ELSE Below(similarity, 995, 1000)

\* C21 as stated: for two chunked fingerprints with different hashes and a
\* supplied similarity, calculate_change_confidence returns changed=true when
\* the similarity is below the threshold, and changed=false with confidence
\* 0.90 when it is at or above the threshold.
C21_SimilarityOverride ==
    (fn.op = "classified" /\ BothChunked
       /\ fn.old_hash_info.hash # fn.new_hash_info.hash
       /\ fn.content_similarity.some) =>
        IF SimilarityBelowOverride(compare_chunk_hashes(fn.old_hash_info, fn.new_hash_info),
                                   fn.content_similarity.similarity)
        THEN fn.verdict.changed
        ELSE ~fn.verdict.changed /\ fn.verdict.confidence = 9000

---------------------------------------------------------------------------
(* Properties of the full-text comparison *)

\* the lengths of the two texts differ by more than 30% of the longer one
LengthsFarApart(old_content, new_content) ==
    Abs(TextLen(old_content) - TextLen(new_content)) * 10
        > 3 * Max(TextLen(old_content), TextLen(new_content))

SameHash(old_content, new_content) ==
    generate_enhanced_ast_hash(old_content).hash = generate_enhanced_ast_hash(new_content).hash

\* C22 as stated: when the lengths differ by more than 30%, the comparison
\* has similarity 0 and major_change, and the verdict computed with it is
\* changed=true whatever the hashes are.
C22_LengthDifferenceForcesChange ==
    (fn.op = "classified" /\ LengthsFarApart(fn.old_content, fn.new_content)) =>
        /\ fn.comparison.similarity = <<0, 1>>
        /\ fn.comparison.major_change
        /\ fn.verdict.changed

\* C22 amended: when the lengths differ by more than 30%, the comparison has
\* similarity 0 and major_change; the verdict computed with it is changed=true
\* when the hashes differ and changed=false with confidence 0.99 when the
\* hashes are equal.
C22_LengthDifferenceUnlessEqualHashes ==
    (fn.op \in {"compared", "classified"}
       /\ LengthsFarApart(fn.old_content, fn.new_content)) =>
        /\ fn.comparison.similarity = <<0, 1>>
        /\ fn.comparison.major_change
        /\ fn.op = "classified" =>
             IF SameHash(fn.old_content, fn.new_content)
             THEN ~fn.verdict.changed /\ fn.verdict.confidence = 9900
             ELSE fn.verdict.changed

\* two texts of different hashes, the longer more than 30% longer: changed
C22_Witness ==
    /\ fn.op = "classified"
    /\ LengthsFarApart(fn.old_content, fn.new_content)
    /\ ~SameHash(fn.old_content, fn.new_content)
    /\ fn.old_content # <<>> /\ fn.new_content # <<>>
    /\ fn.comparison.major_change
    /\ fn.verdict.changed

---------------------------------------------------------------------------
(* Properties of the size threshold of the fingerprint *)

WholeText(text, hash_info) ==
    /\ hash_info.method = "simple_content"
    /\ hash_info.hash = md5(<<"raw", text>>)
    /\ hash_info.chunk_details = <<>>

Chunked(hash_info) ==
    /\ hash_info.method = "position_aware_chunked"
    /\ hash_info.chunk_details # <<>>

\* one hash and no chunk list
Unchunked(hash_info) ==
    /\ hash_info.method \in {"simple_content", "ast"}
    /\ hash_info.chunk_details = <<>>

\* the fingerprint of a text at the threshold, whichever of the two
\* unchunked methods made it
AtThreshold(text, hash_info) ==
    /\ TextLen(text) = ChunkSize => Unchunked(hash_info)
    /\ TextLen(text) = ChunkSize + 1 => Chunked(hash_info)

\* the fingerprint of a text at the threshold of generate_position_aware_hash
AtChunkThreshold(text, hash_info) ==
    /\ TextLen(text) = ChunkSize => WholeText(text, hash_info)
    /\ TextLen(text) = ChunkSize + 1 => Chunked(hash_info)

\* C23 as stated: a text of exactly 2000 characters is fingerprinted with
\* the whole-text method and no chunk list, a text of 2001 characters with
\* the chunked method and a chunk list.
C23_ThresholdOfFingerprint ==
    /\ fn.op # "input" => AtThreshold(fn.text, fn.first.hash_info)
    /\ fn.op = "between" => AtThreshold(fn.other, fn.between.hash_info)

\* C23 amended: the threshold decides for the texts the parser rejects; a
\* text of 2000 or 2001 characters that parses is fingerprinted structurally
\* and has no chunk list.
C23_ThresholdOfUnparsedText ==
    /\ fn.op # "input" =>
         IF Parses(fn.text)
         THEN TextLen(fn.text) \in {ChunkSize, ChunkSize + 1} =>
                  /\ fn.first.hash_info.method = "ast"
                  /\ fn.first.hash_info.chunk_details = <<>>
         ELSE AtChunkThreshold(fn.text, fn.first.hash_info)
    /\ fn.op = "between" =>
         (~Parses(fn.other) => AtChunkThreshold(fn.other, fn.between.hash_info))

\* a rejected text of 2001 characters was chunked and a rejected text of
\* 2000 characters was hashed whole
C23_Witness ==
    /\ fn.op = "between"
    /\ ~Parses(fn.text) /\ TextLen(fn.text) = ChunkSize + 1
    /\ Chunked(fn.first.hash_info)
    /\ ~Parses(fn.other) /\ TextLen(fn.other) = ChunkSize
    /\ WholeText(fn.other, fn.between.hash_info)

---------------------------------------------------------------------------
(* Properties of the chunk comparison *)

\* the lines at which two texts of the same number of lines differ
DifferAt(old_text, new_text) == { k \in 1..Len(old_text) : old_text[k] # new_text[k] }

\* the two texts differ, and only in lines that lie inside [from, to)
DifferOnlyInside(old_text, new_text, from, to) ==
    /\ Len(old_text) = Len(new_text)
    /\ DifferAt(old_text, new_text) # {}
    /\ \A k \in DifferAt(old_text, new_text) :
           /\ LineLength(old_text[k]) = LineLength(new_text[k])
           /\ from <= LineStart(old_text, k)
           /\ LineStart(old_text, k) + LineLength(old_text[k]) <= to

\* the differences are none that normalize_javascript_content removes
DifferAfterNormalizing(old_text, new_text) ==
    \E k \in DifferAt(old_text, new_text) :
        NormalizedLine(old_text[k]) # NormalizedLine(new_text[k])

\* C24 as stated: texts that differ only inside the window of the first
\* chunk give has_important_change=true, texts that differ only behind the
\* window of the third chunk give has_important_change=false.
C24_ChunkLocality ==
    fn.op = "compared" =>
        /\ DifferOnlyInside(fn.old_text, fn.new_text, 0, ChunkSize)
               => fn.chunk_result.has_important_change
        /\ DifferOnlyInside(fn.old_text, fn.new_text, 2 * ChunkSize, TextLen(fn.old_text))
               => ~fn.chunk_result.has_important_change

\* C24 amended: texts that differ only inside the window of the first chunk,
\* in more than what the normalization of a chunk removes, give
\* has_important_change=true; texts that differ only behind the window of the
\* third chunk give has_important_change=false.
C24_ChunkLocalityAfterNormalizing ==
    fn.op = "compared" =>
        /\ (/\ DifferOnlyInside(fn.old_text, fn.new_text, 0, ChunkSize)
            /\ DifferAfterNormalizing(fn.old_text, fn.new_text))
               => fn.chunk_result.changed /\ fn.chunk_result.has_important_change
        /\ (/\ DifferOnlyInside(fn.old_text, fn.new_text, 0, ChunkSize)
            /\ ~DifferAfterNormalizing(fn.old_text, fn.new_text))
               => ~fn.chunk_result.changed /\ ~fn.chunk_result.has_important_change
        /\ DifferOnlyInside(fn.old_text, fn.new_text, 2 * ChunkSize, TextLen(fn.old_text))
               => ~fn.chunk_result.has_important_change

\* two chunked texts that differ in their first line only, compared
C24_Witness ==
    /\ fn.op = "compared"
    /\ BothChunked
    /\ DifferOnlyInside(fn.old_text, fn.new_text, 0, ChunkSize)
    /\ DifferAfterNormalizing(fn.old_text, fn.new_text)
    /\ 0 \in fn.chunk_result.changed_chunks
    /\ fn.chunk_result.has_important_change

\* two chunked texts that differ in their last line only, compared
C24_WitnessBehind ==
    /\ fn.op = "compared"
    /\ BothChunked
    /\ DifferOnlyInside(fn.old_text, fn.new_text, 2 * ChunkSize, TextLen(fn.old_text))
    /\ fn.chunk_result.changed
    /\ ~fn.chunk_result.has_important_change

\* the chunk positions of two fingerprints: 1 .. the longer chunk list
ChunkPositions(old_hash_info, new_hash_info) ==
    1..Max(Len(old_hash_info.chunk_details), Len(new_hash_info.chunk_details))

RECURSIVE SumOfWeights(_)
SumOfWeights(positions) ==
    IF positions = {} THEN 0
    ELSE LET position == CHOOSE p \in positions : TRUE
         IN  ChunkWeight(position - 1) + SumOfWeights(positions \ {position})

\* C25 as stated: change_ratio is the weight of the changed chunk positions
\* over the weight of all chunk positions; it is greater than 0, at most 1,
\* and 1 when every chunk position is changed.
C25_ChangeRatio ==
    (fn.op = "compared" /\ BothChunked /\ fn.chunk_result.changed) =>
        LET positions == ChunkPositions(fn.old_hash_info, fn.new_hash_info)
        IN  /\ fn.chunk_result.changed_weight
                  = SumOfWeights({ i + 1 : i \in fn.chunk_result.changed_chunks })
            /\ fn.chunk_result.total_weight = SumOfWeights(positions)
            /\ 0 < fn.chunk_result.changed_weight
            /\ fn.chunk_result.changed_weight <= fn.chunk_result.total_weight
            /\ fn.chunk_result.changed_chunks = { p - 1 : p \in positions }
                   => fn.chunk_result.changed_weight = fn.chunk_result.total_weight

\* sum(chunk.get('weight') for chunk in old_chunks + new_chunks)
WeightOfBothLists(old_hash_info, new_hash_info) ==
    SumOfWeights(1..Len(old_hash_info.chunk_details))
        + SumOfWeights(1..Len(new_hash_info.chunk_details))

\* 0.85 + 0.10 * change_ratio capped at 0.95, in units of 1/10000, rounded down
RegularConfidence(changed_weight, total_weight) ==
    IF 8500 + (1000 * changed_weight) \div total_weight < 9500
    THEN 8500 + (1000 * changed_weight) \div total_weight
    ELSE 9500

\* the confidence the claim states for a set of changed chunk indices
StatedConfidence(changed_chunks, total_weight) ==
    IF \E i \in changed_chunks : i <= 1 /\ ChunkWeight(i) >= 2
    THEN 9500
    ELSE RegularConfidence(SumOfWeights({ i + 1 : i \in changed_chunks }), total_weight)

\* C26: a chunk-level change has confidence min(0.98, 0.85 + 0.10) = 0.95
\* when a changed chunk has index <= 1 and weight >= 2, and
\* min(0.95, 0.85 + 0.10 * change_ratio) otherwise; a changed chunk 0 gives
\* at least 0.95; every such confidence lies in [0.85, 0.98]; the classifier
\* returns changed=true with that confidence.
C26_ChunkChangeConfidence ==
    (fn.op \in {"compared", "classified"} /\ BothChunked /\ fn.chunk_result.changed) =>
        /\ fn.chunk_result.confidence
               = StatedConfidence(fn.chunk_result.changed_chunks,
                                  WeightOfBothLists(fn.old_hash_info, fn.new_hash_info))
        /\ 8500 <= fn.chunk_result.confidence /\ fn.chunk_result.confidence <= 9800
        /\ 0 \in fn.chunk_result.changed_chunks => fn.chunk_result.confidence >= 9500
        /\ fn.op = "classified" =>
               /\ fn.verdict.changed
               /\ fn.verdict.confidence = fn.chunk_result.confidence

\* a change behind chunk 1, classified: the confidence comes from change_ratio
C26_Witness ==
    /\ fn.op = "classified"
    /\ BothChunked
    /\ fn.chunk_result.changed
    /\ ~fn.chunk_result.has_important_change
    /\ fn.chunk_result.confidence > 8500
    /\ fn.chunk_result.confidence < 9500
    /\ fn.verdict.changed

\* a change of chunk 0, classified
C26_WitnessEarly ==
    /\ fn.op = "classified"
    /\ BothChunked
    /\ 0 \in fn.chunk_result.changed_chunks
    /\ fn.verdict.confidence = 9500

---------------------------------------------------------------------------
(* Properties of the snapshots across failed cycles *)

\* files[0] of the sorted directory
LatestSnapshot(dir) == SortedDescending(dir)[1]

NoCycleRunning == \A t \in threads : ~Running(t)

\* C27 as stated: between cycles, for a source with a last hash and a
\* snapshot, the latest snapshot carries the last hash.
C27_LatestSnapshotHasLastHash ==
    (NoCycleRunning /\ last_hash # None /\ files # {}) =>
        LatestSnapshot(files).hash = last_hash

\* the snapshots a cycle found, latest first
SnapshotsAtStart(t) == SortedDescending(cyc[t].start_files)

\* the cycle of t found a baseline: a latest snapshot that carries last_hash
HasBaseline(t) ==
    /\ cyc[t].start_files # {}
    /\ SnapshotsAtStart(t)[1].hash = cyc[t].start_hash

\* the cycle of t saw the content go A, B, A: its text is that of the
\* snapshot before the baseline, and the baseline has another hash
BackToEarlierContent(t) ==
    /\ HasBaseline(t)
    /\ Len(SnapshotsAtStart(t)) >= 2
    /\ zlib_decompress(SnapshotsAtStart(t)[2].data) = cyc[t].text
    /\ SnapshotsAtStart(t)[2].hash = cyc[t].cur.hash
    /\ cyc[t].cur.hash # cyc[t].start_hash

\* C28 as stated: a cycle that runs the full-text comparison compares with
\* the content of the baseline snapshot, and content that goes A, B, A is
\* reported as changed on the third check.
C28_VerificationAgainstBaseline ==
    \A t \in threads :
        /\ (cyc[t].verified /\ HasBaseline(t)) =>
               cyc[t].previous_content = <<zlib_decompress(SnapshotsAtStart(t)[1].data)>>
        /\ (pc[t] = "done" /\ result[t].success /\ BackToEarlierContent(t)) =>
               result[t].changed = "true"

\* the cycle of t found, as the latest snapshot, its own content stored by a
\* cycle that failed before it set last_hash
RetriesFailedCycle(t) ==
    /\ cyc[t].start_hash # None
    /\ cyc[t].start_files # {}
    /\ SnapshotsAtStart(t)[1].hash = cyc[t].cur.hash
    /\ zlib_decompress(SnapshotsAtStart(t)[1].data) = cyc[t].text
    /\ SnapshotsAtStart(t)[1].hash # cyc[t].start_hash

\* C29 as stated: the successful cycle that follows a cycle which failed
\* between the store and the update, and sees the same content, reports
\* changed=true, renders and saves a diff and sends the notification.
C29_ChangeNotLostByFailedCycle ==
    \A t \in threads :
        (pc[t] = "done" /\ result[t].success /\ RetriesFailedCycle(t)) =>
            /\ result[t].changed = "true"
            /\ result[t].message = "changes_detected"
            /\ cyc[t].diff_saved
            /\ cyc[t].notifs = 1

---------------------------------------------------------------------------
(* Properties of the windows of the chunked fingerprint *)

\* the start of the last window of the loop, kept or not
LastStart(n) == ((n - 1) \div (ChunkSize \div 2)) * (ChunkSize \div 2)

\* C30: every position of a text longer than chunk_size lies in a retained
\* window, and a trailing window of less than 100 characters lies inside the
\* last retained window.
C30_WindowsCoverText ==
    fn.op = "split" =>
        /\ \A position \in 0..(fn.length - 1) :
               \E c \in 1..Len(fn.windows) :
                   fn.windows[c].start <= position /\ position < fn.windows[c].end
        /\ fn.length - LastStart(fn.length) < MinChunk =>
               /\ fn.windows[Len(fn.windows)].start < LastStart(fn.length)
               /\ fn.windows[Len(fn.windows)].end = fn.length

\* a text whose trailing window was discarded
C30_Witness ==
    /\ fn.op = "split"
    /\ fn.length > ChunkSize
    /\ fn.length - LastStart(fn.length) < MinChunk
    /\ \A c \in 1..Len(fn.windows) : fn.windows[c].start # LastStart(fn.length)
    /\ fn.windows[Len(fn.windows)].end = fn.length

====
